---- MODULE Spec2Model ----
(***************************************************************************)
(* Dashboard components of the ppfl client: RealtimeMetrics,              *)
(* PrivacyControls, AnomalyList and AnomalyAnalysis.  Each component is a  *)
(* React function component; its useState cells and the data of its       *)
(* queries are the variables, and every effect, event handler, timer      *)
(* callback and promise continuation is one action.                       *)
(*                                                                         *)
(* Number representation: JS numbers that carry decimals are scaled to    *)
(* integers.  modelAccuracy is in thousandths (0.947 -> 947), privacy     *)
(* budgets are in tenths (6.0 -> 60, 4.2 -> 42).  A field that is absent  *)
(* from a JSON object (undefined) is the value Missing.                   *)
(***************************************************************************)
EXTENDS Integers, Sequences, FiniteSets, TLC

VARIABLES
    \* AnomalyList
    anomalies,          \* useState<Anomaly[]>, each anomaly modelled by its id
    initialAnomalies,   \* data of the /api/anomalies query
    feedLastMessage,    \* lastMessage of useWebSocket in AnomalyList
    \* RealtimeMetrics
    metrics,            \* useState<Metrics>
    initialMetrics,     \* data of the /api/status query
    metricsLastMessage, \* lastMessage of useWebSocket in RealtimeMetrics
    \* PrivacyControls
    privacyMetrics,     \* data of the /api/privacy/budgets query
    \* AnomalyAnalysis
    uploadedFiles,      \* useState<UploadedFile[]>
    selectedResult,     \* useState<AnomalyResult | null>, 0 is null
    selectedFileId,     \* useState<string | null>, 0 is null
    isUploading,        \* useState(false)
    toasts,             \* number of toast() calls made, by title
    analysisToasts,     \* number of "Analysis Complete" toasts, by file id
    pollErrors,         \* number of console.error calls of the poll callback,
                        \* by file id
    stage,              \* position of each uploadFile invocation
    polls,              \* GET /api/uploads requests in flight, by file id
    intervalActive,     \* the setInterval handle pollInterval is not cleared
    timeoutPending,     \* the 60 s setTimeout has not fired yet
    pollDue,            \* the interval callback is due and has not run yet
    age,                \* ms since the poll loop of the file was created
    pollsStarted,       \* number of polls the loop has issued
    timedOutPending,    \* history: the 60 s timer ended a running loop while the
                        \* server's record was still uploaded/processing
    drops,              \* number of onDrop events handled
    srv                 \* the record the server holds for each file

feedVars == <<anomalies, initialAnomalies, feedLastMessage>>
metricsVars == <<metrics, initialMetrics, metricsLastMessage>>
privacyVars == <<privacyMetrics>>
uiVars == <<uploadedFiles, selectedResult, selectedFileId, isUploading>>
toastVars == <<toasts, analysisToasts, pollErrors>>
timerVars == <<intervalActive, timeoutPending, pollDue, age, pollsStarted,
               timedOutPending>>
analysisVars == <<uiVars, toastVars, timerVars, stage, polls, drops, srv>>
vars == <<anomalies, initialAnomalies, feedLastMessage,
          metrics, initialMetrics, metricsLastMessage, privacyMetrics,
          uploadedFiles, selectedResult, selectedFileId, isUploading,
          toasts, analysisToasts, pollErrors, stage, polls, intervalActive,
          timeoutPending, pollDue, age, pollsStarted, timedOutPending, drops, srv>>

\* ------------------------------------------------------------------ bounds
MaxHistory == 11      \* longest /api/anomalies result enumerated
MaxPushId == 1        \* pushed anomalies carry the ids 1..MaxPushId
MaxField == 1         \* numeric fields of a snapshot range over 0..MaxField
MaxBudgets == 2       \* longest /api/privacy/budgets result enumerated
MaxUploads == 2       \* uploadFile invocations, and so file ids 1..MaxUploads
MaxDrops == 2         \* onDrop events
MaxDropLen == 2       \* files in one drop
MaxInFlight == 2      \* polls of one file in flight at the same time

\* ------------------------------------------------------- JS helper functions
Missing == -1

Min(a, b) == IF a < b THEN a ELSE b

\* Array.prototype.slice(start, end) for 0 <= start <= end: the elements with
\* 0-based index start <= i < min(end, length).
Slice(s, start, end) ==
    IF Min(end, Len(s)) <= start THEN <<>>
    ELSE SubSeq(s, start + 1, Min(end, Len(s)))

\* JS truthiness of a number-or-undefined value: undefined and 0 are falsy.
Truthy(v) == v # Missing /\ v # 0

\* a || b
OrElse(v, d) == IF Truthy(v) THEN v ELSE d

\* Math.round(num / den) for num >= 0, den > 0: nearest integer, halves up.
MathRound(num, den) == (2 * num + den) \div (2 * den)

\* ------------------------------------------------------------- AnomalyList
PushIds == 1..MaxPushId

\* a history of n anomalies with distinct ids, newest first: <<n+1, n, ..., 2>>
HistoryOf(n) == [i \in 1..n |-> n + 2 - i]

RetainedPrev == 9
DisplayLimit == 5

NoMessage == [type |-> "none", data |-> 0]

\* results of the /api/anomalies query: arrays of anomalies, or a JSON value
\* that is not an array
Histories ==
    [isArray : {TRUE},
     items : {HistoryOf(n) : n \in 0..MaxHistory}]
    \cup {[isArray |-> FALSE, items |-> <<>>]}

FeedMessages ==
    [type : {"anomaly_detected", "metrics_update", "device_status"},
     data : PushIds]

\* the query resolves; the effect on [initialAnomalies] runs
AnomaliesFetched(h) ==
    /\ ~initialAnomalies.loaded
    /\ initialAnomalies' = [loaded |-> TRUE, isArray |-> h.isArray, items |-> h.items]
    /\ anomalies' = IF h.isArray THEN h.items ELSE anomalies
    /\ UNCHANGED <<feedLastMessage, metricsVars, privacyVars, analysisVars>>

AppendAnomaly(prev, a) == Slice(prev, 0, RetainedPrev) \o <<a>>

\* the updater passed to setAnomalies by the message effect
PrependAnomaly(prev, a) == <<a>> \o Slice(prev, 0, RetainedPrev)

AnomalyListOnAnyMessage(m) ==
    /\ feedLastMessage' = m
    /\ anomalies' = PrependAnomaly(anomalies, m.data)
    /\ UNCHANGED <<initialAnomalies, metricsVars, privacyVars, analysisVars>>

\* a push message arrives; the effect on [lastMessage] runs
AnomalyListOnMessage(m) ==
    /\ feedLastMessage' = m
    /\ anomalies' = IF m.type = "anomaly_detected"
                    THEN PrependAnomaly(anomalies, m.data)
                    ELSE anomalies
    /\ UNCHANGED <<initialAnomalies, metricsVars, privacyVars, analysisVars>>

DisplayedAll == anomalies

\* what the card renders: the placeholder, or one row per displayed anomaly
DisplayedAnomalies == Slice(anomalies, 0, DisplayLimit)
FeedRender ==
    IF Len(anomalies) = 0
    THEN [placeholder |-> TRUE, rows |-> <<>>]
    ELSE [placeholder |-> FALSE, rows |-> DisplayedAnomalies]

InitFeed ==
    /\ anomalies = <<>>
    /\ initialAnomalies = [loaded |-> FALSE, isArray |-> FALSE, items |-> <<>>]
    /\ feedLastMessage = NoMessage

NextFeed ==
    \/ \E h \in Histories : AnomaliesFetched(h)
    \/ \E m \in FeedMessages : AnomalyListOnMessage(m)

\* ---------------------------------------------------------- RealtimeMetrics
DefaultAccuracy == 947
DefaultPrivacyBudget == 60
FlProgressRunning == 85

InitialMetricsState ==
    [activeAnomalies |-> 0, flProgress |-> 0, privacyBudget |-> DefaultPrivacyBudget,
     modelAccuracy |-> 0, totalClients |-> 0, onlineClients |-> 0]

FieldVals == {Missing} \cup 0..MaxField

\* /api/status responses, flattened: devices.total, devices.online,
\* performance.accuracy, security.recentAnomalies,
\* security.privacyBudgetRemaining, fl.currentRound
Snapshots ==
    [total : FieldVals, online : FieldVals, accuracy : FieldVals,
     recentAnomalies : FieldVals, privacyBudgetRemaining : FieldVals,
     currentRound : FieldVals]

NoSnapshot ==
    [loaded |-> FALSE, total |-> Missing, online |-> Missing, accuracy |-> Missing,
     recentAnomalies |-> Missing, privacyBudgetRemaining |-> Missing,
     currentRound |-> Missing]

\* payloads of push messages: nothing checks their shape, so fields may be
\* missing
PayloadVals == {Missing, MaxField + 1}
Payloads ==
    {[activeAnomalies |-> a, flProgress |-> b, privacyBudget |-> b,
      modelAccuracy |-> a, totalClients |-> b, onlineClients |-> a] :
        a \in PayloadVals, b \in PayloadVals}

NoMetricsMessage == [type |-> "none", data |-> InitialMetricsState]

\* a payload with every field present
FullPayload ==
    [activeAnomalies |-> MaxField + 1, flProgress |-> MaxField + 1,
     privacyBudget |-> MaxField + 1, modelAccuracy |-> MaxField + 1,
     totalClients |-> MaxField + 1, onlineClients |-> MaxField + 1]

MetricsMessages ==
    [type : {"metrics_update"}, data : Payloads]
    \cup [type : {"anomaly_detected", "device_status"}, data : {FullPayload}]

ApplySnapshotKeepsCount(prev, s) ==
    [prev EXCEPT
        !.totalClients = OrElse(s.total, 0),
        !.onlineClients = OrElse(s.online, 0),
        !.modelAccuracy = OrElse(s.accuracy, DefaultAccuracy),
        !.activeAnomalies = OrElse(s.recentAnomalies, prev.activeAnomalies),
        !.privacyBudget = OrElse(s.privacyBudgetRemaining, DefaultPrivacyBudget),
        !.flProgress = IF Truthy(s.currentRound) THEN FlProgressRunning ELSE 0]

ApplySnapshotKeepsProgress(prev, s) ==
    [prev EXCEPT
        !.totalClients = OrElse(s.total, 0),
        !.onlineClients = OrElse(s.online, 0),
        !.modelAccuracy = OrElse(s.accuracy, DefaultAccuracy),
        !.activeAnomalies = OrElse(s.recentAnomalies, 0),
        !.privacyBudget = OrElse(s.privacyBudgetRemaining, DefaultPrivacyBudget),
        !.flProgress = IF Truthy(s.currentRound) THEN FlProgressRunning
                       ELSE prev.flProgress]

\* the updater passed to setMetrics by the snapshot effect
ApplySnapshot(prev, s) ==
    [prev EXCEPT
        !.totalClients = OrElse(s.total, 0),
        !.onlineClients = OrElse(s.online, 0),
        !.modelAccuracy = OrElse(s.accuracy, DefaultAccuracy),
        !.activeAnomalies = OrElse(s.recentAnomalies, 0),
        !.privacyBudget = OrElse(s.privacyBudgetRemaining, DefaultPrivacyBudget),
        !.flProgress = IF Truthy(s.currentRound) THEN FlProgressRunning ELSE 0]

\* the query resolves; the effect on [initialMetrics] runs
StatusFetched(s) ==
    /\ ~initialMetrics.loaded
    /\ initialMetrics' =
         [loaded |-> TRUE, total |-> s.total, online |-> s.online,
          accuracy |-> s.accuracy, recentAnomalies |-> s.recentAnomalies,
          privacyBudgetRemaining |-> s.privacyBudgetRemaining,
          currentRound |-> s.currentRound]
    /\ metrics' = ApplySnapshot(metrics, s)
    /\ UNCHANGED <<metricsLastMessage, feedVars, privacyVars, analysisVars>>

MetricsMergedWithMessage(prev, data) ==
    [f \in DOMAIN prev |-> IF data[f] = Missing THEN prev[f] ELSE data[f]]

\* the value the message effect passes to setMetrics
MetricsFromMessage(prev, data) == data

\* a push message arrives; the effect on [lastMessage] runs
RealtimeMetricsOnMessage(m) ==
    /\ metricsLastMessage' = m
    /\ metrics' = IF m.type = "metrics_update"
                  THEN MetricsFromMessage(metrics, m.data)
                  ELSE metrics
    /\ UNCHANGED <<initialMetrics, feedVars, privacyVars, analysisVars>>

InitMetrics ==
    /\ metrics = InitialMetricsState
    /\ initialMetrics = NoSnapshot
    /\ metricsLastMessage = NoMetricsMessage

NextMetrics ==
    \/ \E s \in Snapshots : StatusFetched(s)
    \/ \E m \in MetricsMessages : RealtimeMetricsOnMessage(m)

\* ---------------------------------------------------------- PrivacyControls
BudgetCeiling == 60            \* the 6.0 of the component, in tenths
PlaceholderPercentage == 70

Digit(d) ==
    CASE d = 0 -> "0" [] d = 1 -> "1" [] d = 2 -> "2" [] d = 3 -> "3"
      [] d = 4 -> "4" [] d = 5 -> "5" [] d = 6 -> "6" [] d = 7 -> "7"
      [] d = 8 -> "8" [] d = 9 -> "9"

RECURSIVE NatToString(_)
NatToString(n) ==
    IF n < 10 THEN Digit(n) ELSE NatToString(n \div 10) \o Digit(n % 10)

\* Number.prototype.toFixed(1) of a non-negative number given in tenths
ToFixed1(tenths) == NatToString(tenths \div 10) \o "." \o Digit(tenths % 10)

\* Number.prototype.toExponential(0) of the positive number (m / 10) * 10^e,
\* 10 <= m <= 99: one significant digit, the exponent always signed
ExponentText(e) == IF e < 0 THEN "e-" \o NatToString(0 - e) ELSE "e+" \o NatToString(e)
ToExponential0(d) ==
    IF MathRound(d.m, 10) = 10
    THEN "1" \o ExponentText(d.e + 1)
    ELSE Digit(MathRound(d.m, 10)) \o ExponentText(d.e)

\* PrivacyMetrics records of the enumerated responses
BudgetSamples == {0, 19, 42, 60}
DeltaSamples == [m : {10, 24, 96}, e : {-5, -6}]
PrivacyEntries == [epsilon : {10}, delta : DeltaSamples, remainingBudget : BudgetSamples]
PrivacyLists == UNION {[1..n -> PrivacyEntries] : n \in 0..MaxBudgets}

LastMetrics(pm) ==
    IF pm.loaded /\ Len(pm.items) > 0 THEN <<pm.items[Len(pm.items)]>> ELSE <<>>

\* privacyMetrics?.[0], as a sequence of at most one entry
LatestMetrics(pm) ==
    IF pm.loaded /\ Len(pm.items) > 0 THEN <<pm.items[1]>> ELSE <<>>

BudgetPercentage(pm) ==
    IF LatestMetrics(pm) # <<>>
    THEN MathRound(LatestMetrics(pm)[1].remainingBudget * 100, BudgetCeiling)
    ELSE PlaceholderPercentage

BudgetText(pm) ==
    IF LatestMetrics(pm) # <<>>
    THEN ToFixed1(LatestMetrics(pm)[1].remainingBudget) \o " / 6.0"
    ELSE "4.2 / 6.0"

DeltaText(pm) ==
    IF LatestMetrics(pm) # <<>>
    THEN ToExponential0(LatestMetrics(pm)[1].delta)
    ELSE "1e-5"

\* what the budget block renders for query data pm
PrivacyRender(pm) ==
    [budget |-> BudgetText(pm), percentage |-> BudgetPercentage(pm),
     delta |-> DeltaText(pm)]

\* the query resolves
PrivacyFetched(list) ==
    /\ ~privacyMetrics.loaded
    /\ privacyMetrics' = [loaded |-> TRUE, items |-> list]
    /\ UNCHANGED <<feedVars, metricsVars, analysisVars>>

InitPrivacy ==
    privacyMetrics = [loaded |-> FALSE, items |-> <<>>]

NextPrivacy == \E list \in PrivacyLists : PrivacyFetched(list)

\* ---------------------------------------------------------- AnomalyAnalysis
MaxFileSize == 52428800        \* 50 * 1024 * 1024
PollIntervalMs == 2000
PollTimeoutMs == 60000

AllowedTypes ==
    {"image/jpeg", "image/jpg", "image/png", "image/gif",
     "video/mp4", "video/avi", "video/mov", "video/mkv"}

FileIds == 1..MaxUploads

\* the File objects a drop can carry
DroppedFiles ==
    [size : {MaxFileSize, MaxFileSize + 1},
     type : {"image/png", "application/pdf"}]
DropLists == UNION {[1..n -> DroppedFiles] : n \in 1..MaxDropLen}

ToastTitles ==
    {"File Too Large", "Invalid File Type", "File Uploaded", "Upload Failed"}

TooLargeInclusive(file) == file.size >= MaxFileSize

\* the size check of onDrop
TooLarge(file) == file.size > MaxFileSize
\* the type check of onDrop
TypeAllowed(file) == file.type \in AllowedTypes

\* UploadedFile records, by id, status and analysisResults (0: absent; the
\* result of file k is the value k)
FileRecord(id, status, results) ==
    [id |-> id, status |-> status, analysisResults |-> results]

NoRecord == FileRecord(0, "none", 0)

RECURSIVE CountWhere(_, _, _)
\* number of indexes i <= n of the drop whose file is of the given kind
CountWhere(files, n, kind) ==
    IF n = 0 THEN 0
    ELSE CountWhere(files, n - 1, kind)
         + (IF kind = "large" /\ TooLarge(files[n]) THEN 1
            ELSE IF kind = "type" /\ ~TooLarge(files[n]) /\ ~TypeAllowed(files[n]) THEN 1
            ELSE IF kind = "ok" /\ ~TooLarge(files[n]) /\ TypeAllowed(files[n]) THEN 1
            ELSE 0)

IdleSlots == {k \in FileIds : stage[k] = "idle"}

RECURSIVE LowestN(_, _)
\* the n lowest elements of a set of integers
LowestN(S, n) ==
    IF n = 0 \/ S = {} THEN {}
    ELSE LET m == CHOOSE x \in S : \A y \in S : x <= y
         IN  {m} \cup LowestN(S \ {m}, n - 1)

\* onDrop: every file of the drop is checked in turn; a rejected file gets one
\* toast, an accepted one gets uploadFile(file), which runs up to its
\* await fetch('/api/upload'): setIsUploading(true) and the POST is sent.
OnDrop(files) ==
    LET nOk == CountWhere(files, Len(files), "ok")
        nLarge == CountWhere(files, Len(files), "large")
        nType == CountWhere(files, Len(files), "type")
    IN  /\ drops < MaxDrops
        /\ nOk <= Cardinality(IdleSlots)
        /\ drops' = drops + 1
        /\ toasts' = [toasts EXCEPT !["File Too Large"] = @ + nLarge,
                                    !["Invalid File Type"] = @ + nType]
        /\ stage' = [k \in FileIds |->
                        IF k \in LowestN(IdleSlots, nOk) THEN "posting" ELSE stage[k]]
        /\ isUploading' = IF nOk > 0 THEN TRUE ELSE isUploading
        /\ UNCHANGED <<uploadedFiles, selectedResult, selectedFileId, analysisToasts,
                       pollErrors, timerVars, polls, srv>>
        /\ UNCHANGED <<feedVars, metricsVars, privacyVars>>

\* the record in the body of a successful POST /api/upload response
UploadResponse(k) == FileRecord(k, "uploaded", 0)

\* uploadFile resumes after a successful POST: the record is appended, the
\* poll interval and the 60 s timeout are created, "File Uploaded" is
\* toasted and the finally block clears isUploading.
UploadSucceeded(k) ==
    /\ stage[k] = "posting"
    /\ stage' = [stage EXCEPT ![k] = "polling"]
    /\ srv' = [srv EXCEPT ![k] = UploadResponse(k)]
    /\ uploadedFiles' = Append(uploadedFiles, UploadResponse(k))
    /\ intervalActive' = [intervalActive EXCEPT ![k] = TRUE]
    /\ timeoutPending' = [timeoutPending EXCEPT ![k] = TRUE]
    /\ toasts' = [toasts EXCEPT !["File Uploaded"] = @ + 1]
    /\ isUploading' = FALSE
    /\ UNCHANGED <<selectedResult, selectedFileId, analysisToasts, pollErrors,
                   pollDue, age, pollsStarted, timedOutPending, polls, drops>>
    /\ UNCHANGED <<feedVars, metricsVars, privacyVars>>

UploadFailedKeepsSpinner(k) ==
    /\ stage[k] = "posting"
    /\ stage' = [stage EXCEPT ![k] = "failed"]
    /\ toasts' = [toasts EXCEPT !["Upload Failed"] = @ + 1]
    /\ UNCHANGED <<uploadedFiles, selectedResult, selectedFileId, isUploading,
                   analysisToasts, pollErrors, timerVars, polls, drops, srv>>
    /\ UNCHANGED <<feedVars, metricsVars, privacyVars>>

\* uploadFile resumes after a failed POST (fetch rejected or !response.ok):
\* the catch block toasts "Upload Failed", the finally block clears isUploading.
UploadFailed(k) ==
    /\ stage[k] = "posting"
    /\ stage' = [stage EXCEPT ![k] = "failed"]
    /\ toasts' = [toasts EXCEPT !["Upload Failed"] = @ + 1]
    /\ isUploading' = FALSE
    /\ UNCHANGED <<uploadedFiles, selectedResult, selectedFileId, analysisToasts,
                   pollErrors, timerVars, polls, drops, srv>>
    /\ UNCHANGED <<feedVars, metricsVars, privacyVars>>

\* the server works on a file: uploaded -> processing -> analyzed | error;
\* an analyzed record normally carries analysisResults
ServerStep(k) ==
    /\ srv[k].status \in {"uploaded", "processing"}
    /\ \/ /\ srv[k].status = "uploaded"
          /\ srv' = [srv EXCEPT ![k] = FileRecord(k, "processing", 0)]
       \/ /\ srv[k].status = "processing"
          /\ \E r \in {FileRecord(k, "analyzed", k), FileRecord(k, "analyzed", 0),
                       FileRecord(k, "error", 0)} :
                srv' = [srv EXCEPT ![k] = r]
    /\ UNCHANGED <<uiVars, toastVars, timerVars, stage, polls, drops>>
    /\ UNCHANGED <<feedVars, metricsVars, privacyVars>>

\* a timer of the loop of file k is still alive
TimerAlive(k) == timeoutPending[k] \/ intervalActive[k]

\* time passes: PollIntervalMs more ms for every loop that has a live timer,
\* whose interval callback becomes due; every timer that was due has run
Tick ==
    /\ \E k \in FileIds : TimerAlive(k)
    /\ \A k \in FileIds : ~pollDue[k] /\ ~(timeoutPending[k] /\ age[k] >= PollTimeoutMs)
    /\ age' = [k \in FileIds |->
                  IF TimerAlive(k) THEN age[k] + PollIntervalMs ELSE age[k]]
    /\ pollDue' = [k \in FileIds |-> intervalActive[k]]
    /\ UNCHANGED <<uiVars, toastVars, intervalActive, timeoutPending, pollsStarted,
                   timedOutPending, stage, polls, drops, srv>>
    /\ UNCHANGED <<feedVars, metricsVars, privacyVars>>

\* the interval callback of file k runs up to its await fetch('/api/uploads')
PollTick(k) ==
    /\ pollDue[k]
    /\ intervalActive[k]
    /\ polls[k] < MaxInFlight
    /\ pollDue' = [pollDue EXCEPT ![k] = FALSE]
    /\ polls' = [polls EXCEPT ![k] = @ + 1]
    /\ pollsStarted' = [pollsStarted EXCEPT ![k] = @ + 1]
    /\ UNCHANGED <<uiVars, toastVars, intervalActive, timeoutPending, age,
                   timedOutPending, stage, drops, srv>>
    /\ UNCHANGED <<feedVars, metricsVars, privacyVars>>

LeaveInterval(k) ==
    /\ intervalActive' = intervalActive
    /\ pollDue' = pollDue

\* clearInterval(pollInterval): the handle is dead and a callback that was
\* due does not run
ClearInterval(k) ==
    /\ intervalActive' = [intervalActive EXCEPT ![k] = FALSE]
    /\ pollDue' = [pollDue EXCEPT ![k] = FALSE]

PollTimeoutKeepsInterval(k) ==
    /\ timeoutPending[k]
    /\ age[k] >= PollTimeoutMs
    /\ timeoutPending' = [timeoutPending EXCEPT ![k] = FALSE]
    /\ timedOutPending' =
         [timedOutPending EXCEPT
            ![k] = intervalActive[k] /\ srv[k].status \in {"uploaded", "processing"}]
    /\ UNCHANGED <<uiVars, toastVars, intervalActive, pollDue, age, pollsStarted,
                   stage, polls, drops, srv>>
    /\ UNCHANGED <<feedVars, metricsVars, privacyVars>>

\* the setTimeout callback of file k
PollTimeout(k) ==
    /\ timeoutPending[k]
    /\ age[k] >= PollTimeoutMs
    /\ timeoutPending' = [timeoutPending EXCEPT ![k] = FALSE]
    /\ ClearInterval(k)
    /\ timedOutPending' =
         [timedOutPending EXCEPT
            ![k] = intervalActive[k] /\ srv[k].status \in {"uploaded", "processing"}]
    /\ UNCHANGED <<uiVars, toastVars, age, pollsStarted, stage, polls, drops, srv>>
    /\ UNCHANGED <<feedVars, metricsVars, privacyVars>>

\* files.find(f => f.id === uploadedFile.id) on the polled list: the server's
\* record of the file when the list holds one
CurrentFile(k, listed) == IF listed THEN srv[k] ELSE NoRecord

IsFinalOrProcessing(cur) ==
    cur # NoRecord /\ cur.status # "uploaded"

\* the condition under which a polled record ends the loop
IsFinal(cur) ==
    cur # NoRecord /\ cur.status # "uploaded" /\ cur.status # "processing"

ReplaceEvery(prev, id, cur) == [i \in 1..Len(prev) |-> cur]

\* prev.map(f => f.id === uploadedFile.id ? currentFile : f)
ReplaceFile(prev, id, cur) ==
    [i \in 1..Len(prev) |-> IF prev[i].id = id THEN cur ELSE prev[i]]

SelectAfterPollKeeps(prev, cur) == prev

\* the value of selectedResult after a final record was polled
SelectAfterPoll(prev, cur) ==
    IF cur.status = "analyzed" /\ cur.analysisResults # 0
    THEN cur.analysisResults
    ELSE prev

\* the interval callback resumes with the polled list
PollReturned(k, listed) ==
    LET cur == CurrentFile(k, listed)
    IN  /\ polls[k] > 0
        /\ polls' = [polls EXCEPT ![k] = @ - 1]
        /\ IF IsFinal(cur)
           THEN /\ uploadedFiles' = ReplaceFile(uploadedFiles, k, cur)
                /\ selectedResult' = SelectAfterPoll(selectedResult, cur)
                /\ ClearInterval(k)
                /\ analysisToasts' =
                     [analysisToasts EXCEPT
                        ![k] = IF cur.status = "analyzed" THEN @ + 1 ELSE @]
           ELSE UNCHANGED <<uploadedFiles, selectedResult, intervalActive, pollDue,
                            analysisToasts>>
        /\ UNCHANGED <<selectedFileId, isUploading, toasts, pollErrors,
                       timeoutPending, age, pollsStarted, timedOutPending, stage,
                       drops, srv>>
        /\ UNCHANGED <<feedVars, metricsVars, privacyVars>>

PollFailedKeepsPolling(k) ==
    /\ polls[k] > 0
    /\ polls' = [polls EXCEPT ![k] = @ - 1]
    /\ pollErrors' = [pollErrors EXCEPT ![k] = @ + 1]
    /\ UNCHANGED <<uiVars, toasts, analysisToasts, intervalActive, pollDue,
                   timeoutPending, age, pollsStarted, timedOutPending, stage,
                   drops, srv>>
    /\ UNCHANGED <<feedVars, metricsVars, privacyVars>>

\* the fetch of a poll rejects or its body does not parse: the catch block
\* logs the error and clears the interval
PollFailed(k) ==
    /\ polls[k] > 0
    /\ polls' = [polls EXCEPT ![k] = @ - 1]
    /\ pollErrors' = [pollErrors EXCEPT ![k] = @ + 1]
    /\ ClearInterval(k)
    /\ UNCHANGED <<uiVars, toasts, analysisToasts, timeoutPending, age,
                   pollsStarted, timedOutPending, stage, drops, srv>>
    /\ UNCHANGED <<feedVars, metricsVars, privacyVars>>

\* onClick of the i-th row of the results list
ClickFile(i) ==
    /\ i \in 1..Len(uploadedFiles)
    /\ uploadedFiles[i].analysisResults # 0
    /\ selectedResult' = uploadedFiles[i].analysisResults
    /\ selectedFileId' = uploadedFiles[i].id
    /\ UNCHANGED <<uploadedFiles, isUploading, toastVars, timerVars, stage, polls,
                   drops, srv>>
    /\ UNCHANGED <<feedVars, metricsVars, privacyVars>>

InitAnalysis ==
    /\ uploadedFiles = <<>>
    /\ selectedResult = 0
    /\ selectedFileId = 0
    /\ isUploading = FALSE
    /\ toasts = [t \in ToastTitles |-> 0]
    /\ analysisToasts = [k \in FileIds |-> 0]
    /\ pollErrors = [k \in FileIds |-> 0]
    /\ stage = [k \in FileIds |-> "idle"]
    /\ polls = [k \in FileIds |-> 0]
    /\ intervalActive = [k \in FileIds |-> FALSE]
    /\ timeoutPending = [k \in FileIds |-> FALSE]
    /\ pollDue = [k \in FileIds |-> FALSE]
    /\ age = [k \in FileIds |-> 0]
    /\ pollsStarted = [k \in FileIds |-> 0]
    /\ timedOutPending = [k \in FileIds |-> FALSE]
    /\ drops = 0
    /\ srv = [k \in FileIds |-> NoRecord]

NextAnalysis ==
    \/ \E files \in DropLists : OnDrop(files)
    \/ \E k \in FileIds : UploadSucceeded(k)
    \/ \E k \in FileIds : UploadFailed(k)
    \/ \E k \in FileIds : ServerStep(k)
    \/ Tick
    \/ \E k \in FileIds : PollTick(k)
    \/ \E k \in FileIds : PollTimeout(k)
    \/ \E k \in FileIds, listed \in BOOLEAN : PollReturned(k, listed)
    \/ \E k \in FileIds : PollFailed(k)
    \/ \E i \in FileIds : ClickFile(i)

\* the first file uploaded
FirstFile == CHOOSE k \in FileIds : \A j \in FileIds : k <= j

\* the user dropped one acceptable file: uploadFile has sent its POST
InitFirstLoop ==
    /\ InitFeed /\ InitMetrics /\ InitPrivacy
    /\ uploadedFiles = <<>>
    /\ selectedResult = 0
    /\ selectedFileId = 0
    /\ isUploading = TRUE
    /\ toasts = [t \in ToastTitles |-> 0]
    /\ analysisToasts = [k \in FileIds |-> 0]
    /\ pollErrors = [k \in FileIds |-> 0]
    /\ stage = [k \in FileIds |-> IF k = FirstFile THEN "posting" ELSE "idle"]
    /\ polls = [k \in FileIds |-> 0]
    /\ intervalActive = [k \in FileIds |-> FALSE]
    /\ timeoutPending = [k \in FileIds |-> FALSE]
    /\ pollDue = [k \in FileIds |-> FALSE]
    /\ age = [k \in FileIds |-> 0]
    /\ pollsStarted = [k \in FileIds |-> 0]
    /\ timedOutPending = [k \in FileIds |-> FALSE]
    /\ drops = 1
    /\ srv = [k \in FileIds |-> NoRecord]

\* the upload and the poll loop of that file, from the POST to the end
NextFirstLoop ==
    \/ UploadSucceeded(FirstFile)
    \/ UploadFailed(FirstFile)
    \/ ServerStep(FirstFile)
    \/ Tick
    \/ PollTick(FirstFile)
    \/ PollTimeout(FirstFile)
    \/ \E listed \in BOOLEAN : PollReturned(FirstFile, listed)
    \/ PollFailed(FirstFile)
    \/ \E i \in FileIds : ClickFile(i)

\* the second file uploaded
SecondFile == FirstFile + 1

\* polls the interval of a loop has started when the loop is ms old
PollsBy(ms) == ms \div PollIntervalMs

\* ages of the two loops when they are first looked at together
FirstLoopAge == PollTimeoutMs - 3 * PollIntervalMs
SecondLoopAge == PollTimeoutMs - 5 * PollIntervalMs

\* one drop of two acceptable files, both POSTs succeeded, the second one an
\* while later than the first; every poll so far has returned and found
\* the server still working on both files
InitTwoLoops ==
    /\ InitFeed /\ InitMetrics /\ InitPrivacy
    /\ uploadedFiles = <<FileRecord(FirstFile, "uploaded", 0),
                         FileRecord(SecondFile, "uploaded", 0)>>
    /\ selectedResult = 0
    /\ selectedFileId = 0
    /\ isUploading = FALSE
    /\ toasts = [t \in ToastTitles |-> IF t = "File Uploaded" THEN 2 ELSE 0]
    /\ analysisToasts = [k \in FileIds |-> 0]
    /\ pollErrors = [k \in FileIds |-> 0]
    /\ stage = [k \in FileIds |->
                  IF k \in {FirstFile, SecondFile} THEN "polling" ELSE "idle"]
    /\ polls = [k \in FileIds |-> 0]
    /\ intervalActive = [k \in FileIds |-> k \in {FirstFile, SecondFile}]
    /\ timeoutPending = [k \in FileIds |-> k \in {FirstFile, SecondFile}]
    /\ pollDue = [k \in FileIds |-> FALSE]
    /\ age = [k \in FileIds |->
                IF k = FirstFile THEN FirstLoopAge
                ELSE IF k = SecondFile THEN SecondLoopAge ELSE 0]
    /\ pollsStarted = [k \in FileIds |->
                IF k = FirstFile THEN PollsBy(FirstLoopAge)
                ELSE IF k = SecondFile THEN PollsBy(SecondLoopAge) ELSE 0]
    /\ timedOutPending = [k \in FileIds |-> FALSE]
    /\ drops = 1
    /\ srv = [k \in FileIds |->
                IF k \in {FirstFile, SecondFile}
                THEN FileRecord(k, "processing", 0) ELSE NoRecord]

\* the last seconds of the two poll loops
NextTwoLoops ==
    \E k \in {FirstFile, SecondFile} :
        \/ ServerStep(k)
        \/ Tick
        \/ PollTick(k)
        \/ PollTimeout(k)
        \/ \E listed \in BOOLEAN : PollReturned(k, listed)
        \/ PollFailed(k)

\* drops and the uploads they start, before any timer fires
NextDrop ==
    \/ \E files \in DropLists : OnDrop(files)
    \/ \E k \in FileIds : UploadSucceeded(k)
    \/ \E k \in FileIds : UploadFailed(k)

\* ---------------------------------------------- both push-driven components
\* /api/anomalies results of the two components run together: not an array,
\* an empty history, a history of two anomalies
PushHistories == {h \in Histories : ~h.isArray \/ Len(h.items) \in {0, 2}}

\* 'anomaly_detected' messages all carry the same new anomaly
PushFeedMessages == {m \in FeedMessages : m.data = 1}

\* /api/status responses in which the fields of each group agree
PushSnapshots ==
    {[total |-> a, online |-> b, accuracy |-> a, recentAnomalies |-> a,
      privacyBudgetRemaining |-> b, currentRound |-> b] :
        a \in FieldVals, b \in FieldVals}

\* AnomalyList and RealtimeMetrics mounted on the same page: the two one-shot
\* fetches and the messages of the two sockets, in any order
NextPush ==
    \/ \E h \in PushHistories : AnomaliesFetched(h)
    \/ \E m \in PushFeedMessages : AnomalyListOnMessage(m)
    \/ \E s \in PushSnapshots : StatusFetched(s)
    \/ \E m \in MetricsMessages : RealtimeMetricsOnMessage(m)

\* ------------------------------------------------------------ specifications
Init == InitFeed /\ InitMetrics /\ InitPrivacy /\ InitAnalysis

Next == NextFeed \/ NextMetrics \/ NextPrivacy \/ NextAnalysis
Spec == Init /\ [][Next]_vars

SpecFeed == Init /\ [][NextFeed]_vars
SpecMetrics == Init /\ [][NextMetrics]_vars
SpecPrivacy == Init /\ [][NextPrivacy]_vars
SpecAnalysis == Init /\ [][NextAnalysis]_vars
SpecFirstLoop == InitFirstLoop /\ [][NextFirstLoop]_vars
SpecDrop == Init /\ [][NextDrop]_vars
SpecPush == Init /\ [][NextPush]_vars
SpecTwoLoops == InitTwoLoops /\ [][NextTwoLoops]_vars

\* ================================================================== claims

\* C1: the retained anomaly list never holds more than 10 entries, whatever
\* the interleaving of history results and 'anomaly_detected' messages.
C1_RetainedAtMostTen == Len(anomalies) <= RetainedPrev + 1

\* C2: a push message of type 'metrics_update' replaces the whole metrics
\* state by message.data: after it is handled the state equals the payload,
\* also when the payload lacks fields.
C2_MetricsUpdateReplaces ==
    [][(initialMetrics' = initialMetrics
        /\ metricsLastMessage'.type = "metrics_update")
       => metrics' = metricsLastMessage'.data]_vars

\* C2 witness: a payload with missing fields was applied after the snapshot.
C2_Witness ==
    /\ initialMetrics.loaded
    /\ metricsLastMessage.type = "metrics_update"
    /\ metrics = metricsLastMessage.data
    /\ metrics.activeAnomalies = Missing
    /\ metrics.totalClients # Missing

\* C8: when the /api/status snapshot arrives without security.recentAnomalies
\* the displayed active-anomaly count becomes 0, whatever it was before.
C8_MissingAnomaliesShowZero ==
    [][(~initialMetrics.loaded /\ initialMetrics'.loaded
        /\ initialMetrics'.recentAnomalies = Missing)
       => metrics'.activeAnomalies = 0]_vars

\* C8 witness: a pushed count was displayed, then the snapshot without the
\* field arrived and the count shown is 0.
C8_Witness ==
    /\ initialMetrics.loaded
    /\ initialMetrics.recentAnomalies = Missing
    /\ metricsLastMessage.type = "metrics_update"
    /\ metricsLastMessage.data.activeAnomalies = MaxField + 1
    /\ metrics.activeAnomalies = 0

\* the step handles an 'anomaly_detected' push message
FeedPushStep ==
    /\ initialAnomalies' = initialAnomalies
    /\ feedLastMessage'.type = "anomaly_detected"

\* C9 as stated: an 'anomaly_detected' message makes the displayed list grow
\* by exactly one entry, the new anomaly first, for every retained list.
C9_DisplayedGrowsByOne ==
    [][FeedPushStep =>
        /\ Len(DisplayedAnomalies') = Len(DisplayedAnomalies) + 1
        /\ DisplayedAnomalies'[1] = feedLastMessage'.data]_vars

\* C9 amended: the new anomaly becomes the first displayed entry, followed by
\* the previously displayed entries in order; the displayed list grows by one
\* only while fewer than 5 were displayed, and stays at 5 otherwise.
C9_DisplayedGrowsUpToFive ==
    [][FeedPushStep =>
        /\ Len(DisplayedAnomalies') =
             (IF Len(DisplayedAnomalies) < 5 THEN Len(DisplayedAnomalies) + 1 ELSE 5)
        /\ DisplayedAnomalies'[1] = feedLastMessage'.data
        /\ \A i \in 2..Len(DisplayedAnomalies') :
             DisplayedAnomalies'[i] = DisplayedAnomalies[i - 1]]_vars

\* C9 witness: a pushed anomaly heads a list whose next entries are a fetched
\* history of at least 5 anomalies.
C9_Witness ==
    /\ feedLastMessage.type = "anomaly_detected"
    /\ initialAnomalies.loaded
    /\ Len(initialAnomalies.items) >= 5
    /\ Len(anomalies) >= 6
    /\ anomalies[1] = feedLastMessage.data
    /\ anomalies[2] = initialAnomalies.items[1]

\* C10: the displayed anomalies are the first min(5, n) of the n retained
\* ones in order, never more than 5, and the 'No anomalies detected'
\* placeholder shows exactly when the retained list is empty.
C10_DisplayIsPrefix ==
    /\ Len(FeedRender.rows) = (IF Len(anomalies) < 5 THEN Len(anomalies) ELSE 5)
    /\ \A i \in 1..Len(FeedRender.rows) : FeedRender.rows[i] = anomalies[i]
    /\ Len(FeedRender.rows) <= 5
    /\ FeedRender.placeholder <=> (anomalies = <<>>)
    /\ FeedRender.placeholder => FeedRender.rows = <<>>

\* C10 witness: more anomalies are retained than are displayed.
C10_Witness ==
    /\ Len(anomalies) = 11
    /\ Len(FeedRender.rows) = 5

\* C3: the poll loop of an uploaded file starts its polls 2000 ms apart, the
\* n-th one 2000 * n ms after the loop was created; it starts at most 30 of
\* them and none later than 60 s after the loop was created.
C3_PollSchedule ==
    [][\A k \in FileIds :
        pollsStarted'[k] # pollsStarted[k] =>
            /\ pollsStarted'[k] = pollsStarted[k] + 1
            /\ age[k] = 2000 * pollsStarted'[k]
            /\ pollsStarted'[k] <= 30
            /\ age[k] <= 60000]_vars

\* C3 witness: the 30th poll was started at 60 s and the timer has fired.
C3_Witness ==
    /\ pollsStarted[FirstFile] = 30
    /\ age[FirstFile] = 60000
    /\ ~timeoutPending[FirstFile]
    /\ ~intervalActive[FirstFile]

\* C4: when the status of a file was still 'uploaded'/'processing' as the
\* 60 s timer fired, nothing changes uploadedFiles or selectedResult for that
\* file afterwards, not even a poll that was in flight when the timer fired.
C4_NoUpdateAfterTimeout ==
    [][\A k \in FileIds :
        (timedOutPending[k] /\ polls'[k] < polls[k]) =>
            /\ uploadedFiles' = uploadedFiles
            /\ selectedResult' = selectedResult]_vars

\* the entry of file k in a list of UploadedFile records
EntryOf(list, k) == list[CHOOSE i \in 1..Len(list) : list[i].id = k]

\* C5: a poll that returns, before the 60 s cutoff, the file's record with
\* status 'analyzed' and analysisResults makes that record the file's entry
\* of uploadedFiles and its analysisResults the selectedResult.
C5_AnalyzedPollShowsResult ==
    [][\A k \in FileIds :
        (/\ PollReturned(k, TRUE)
         /\ timeoutPending[k]
         /\ srv[k].status = "analyzed"
         /\ srv[k].analysisResults # 0) =>
            /\ \E i \in 1..Len(uploadedFiles') : uploadedFiles'[i].id = k
            /\ \A i \in 1..Len(uploadedFiles') :
                  uploadedFiles'[i].id = k => uploadedFiles'[i] = srv[k]
            /\ Len(uploadedFiles') = Len(uploadedFiles)
            /\ selectedResult' = srv[k].analysisResults]_vars

\* C5 witness: before the cutoff the panel shows the polled result of the
\* file, which no click selected.
C5_Witness ==
    /\ timeoutPending[FirstFile]
    /\ age[FirstFile] < 60000
    /\ Len(uploadedFiles) = 1
    /\ uploadedFiles[1] = FileRecord(FirstFile, "analyzed", FirstFile)
    /\ selectedResult = FirstFile
    /\ selectedFileId = 0

\* the files of a drop that the size limit or the MIME allow-list rejects
RejectedIn(files) ==
    {i \in 1..Len(files) :
        files[i].size > 50 * 1024 * 1024 \/ files[i].type \notin AllowedTypes}

\* C6: a dropped file that is over 50 MB or not of an allowed MIME type gets
\* exactly one rejection toast and no uploadFile call (no POST, no entry of
\* uploadedFiles, no poll loop); the other files of the drop are uploaded.
C6_RejectedFilesNotUploaded ==
    [][\A files \in DropLists :
        OnDrop(files) =>
            /\ (toasts'["File Too Large"] + toasts'["Invalid File Type"])
                 - (toasts["File Too Large"] + toasts["Invalid File Type"])
                 = Cardinality(RejectedIn(files))
            /\ Cardinality({k \in FileIds : stage'[k] = "posting" /\ stage[k] # "posting"})
                 = Len(files) - Cardinality(RejectedIn(files))
            /\ \A k \in FileIds : stage'[k] # stage[k] => stage'[k] = "posting"
            /\ uploadedFiles' = uploadedFiles
            /\ intervalActive' = intervalActive
            /\ timeoutPending' = timeoutPending
            /\ polls' = polls]_vars

\* C6 witness: one drop held a rejected file and an accepted one, which is
\* being uploaded.
C6_Witness ==
    /\ drops = 1
    /\ toasts["File Too Large"] + toasts["Invalid File Type"] = 1
    /\ Cardinality({k \in FileIds : stage[k] = "posting"}) = 1

\* C7: with no or an empty /api/privacy/budgets result the fixed placeholder
\* ('4.2 / 6.0', 70, '1e-5') is rendered; with a non-empty result the values
\* come from the first entry only, the percentage being
\* round(remainingBudget / 6.0 * 100).
C7_PrivacyRender ==
    LET pm == privacyMetrics
        r == PrivacyRender(pm)
    IN  /\ (~pm.loaded \/ pm.items = <<>>) =>
              r = [budget |-> "4.2 / 6.0", percentage |-> 70, delta |-> "1e-5"]
        /\ (pm.loaded /\ pm.items # <<>>) =>
              \* the nearest integer p to remainingBudget * 100 / 60 (tenths)
              /\ 2 * 60 * r.percentage - 60 <= 2 * 100 * pm.items[1].remainingBudget
              /\ 2 * 100 * pm.items[1].remainingBudget < 2 * 60 * r.percentage + 60
              /\ r = PrivacyRender([loaded |-> TRUE, items |-> <<pm.items[1]>>])
              /\ \A e \in PrivacyEntries :
                    PrivacyRender([loaded |-> TRUE, items |-> <<pm.items[1], e>>]) = r

\* C7 witness: the query answered with an empty list.
C7_Witness == privacyMetrics.loaded /\ privacyMetrics.items = <<>>

\* C12: a poll of GET /api/uploads that fails clears the poll loop of its
\* file at once: the step that logs the failure leaves the interval cleared,
\* starts no poll and leaves uploadedFiles and selectedResult as they were,
\* and no poll is started for that file at any later step.
C12_PollFailureClearsLoop ==
    [][\A k \in FileIds :
        /\ pollErrors'[k] > pollErrors[k] =>
              /\ ~intervalActive'[k]
              /\ ~pollDue'[k]
              /\ polls'[k] = polls[k] - 1
              /\ pollsStarted'[k] = pollsStarted[k]
              /\ uploadedFiles' = uploadedFiles
              /\ selectedResult' = selectedResult
        /\ pollErrors[k] > 0 =>
              /\ pollsStarted'[k] = pollsStarted[k]
              /\ polls'[k] <= polls[k]]_vars

\* C12 witness: the first poll failed early; the 60 s timer is still pending,
\* time went on, and no second poll was started.
C12_Witness ==
    /\ pollErrors[FirstFile] = 1
    /\ pollsStarted[FirstFile] = 1
    /\ timeoutPending[FirstFile]
    /\ age[FirstFile] >= 3 * PollIntervalMs
    /\ ~intervalActive[FirstFile]
    /\ uploadedFiles = <<FileRecord(FirstFile, "uploaded", 0)>>

\* the entry of uploadedFiles for file k holds a status other than
\* 'uploaded' and 'processing': a poll has observed the file's final record
ObservedFinal(k) ==
    \E i \in 1..Len(uploadedFiles) :
        /\ uploadedFiles[i].id = k
        /\ uploadedFiles[i].status \notin {"uploaded", "processing"}

\* C14: once a poll has observed a final record of a file, the interval of
\* that file is cleared and no poll is started for it afterwards; the same
\* holds after a poll failure and after the 60 s timer has fired.
C14_LoopStopsOnCompletion ==
    [][\A k \in FileIds :
        /\ ObservedFinal(k)' => ~intervalActive'[k] /\ ~pollDue'[k]
        /\ ObservedFinal(k) => pollsStarted'[k] = pollsStarted[k]
        /\ pollErrors[k] > 0 => pollsStarted'[k] = pollsStarted[k]
        /\ (stage[k] = "polling" /\ ~timeoutPending[k]) =>
              pollsStarted'[k] = pollsStarted[k]]_vars

\* C14 witness: the second poll observed the final record well before the
\* timeout; time went on and no third poll was started.
C14_Witness ==
    /\ ObservedFinal(FirstFile)
    /\ pollsStarted[FirstFile] = 2
    /\ pollErrors[FirstFile] = 0
    /\ timeoutPending[FirstFile]
    /\ age[FirstFile] >= 5 * PollIntervalMs

\* C15: an entry of uploadedFiles is created with status 'uploaded' and changes
\* only from 'uploaded'/'processing' to 'analyzed' or 'error', keeping its id;
\* an entry that is 'analyzed' or 'error' is never changed again, also not by
\* polls of that file that were in flight.
C15_StatusMovesForward ==
    [][/\ Len(uploadedFiles') >= Len(uploadedFiles)
       /\ \A i \in 1..Len(uploadedFiles') :
            IF i > Len(uploadedFiles)
            THEN uploadedFiles'[i].status = "uploaded"
            ELSE uploadedFiles'[i] # uploadedFiles[i] =>
                    /\ uploadedFiles[i].status \in {"uploaded", "processing"}
                    /\ uploadedFiles'[i].status \in {"analyzed", "error"}
                    /\ uploadedFiles'[i].id = uploadedFiles[i].id]_vars

\* C15 witness: two polls of the file were in flight and both returned the
\* analyzed record; the entry is the analyzed record.
C15_Witness ==
    /\ Len(uploadedFiles) = 1
    /\ uploadedFiles[1].status = "analyzed"
    /\ analysisToasts[FirstFile] = 2
    /\ polls[FirstFile] = 0

\* C19: whenever a result is selected, selectedFileId is the id of an entry
\* of uploadedFiles whose analysisResults is the selected result.
C19_SelectedFileMatchesResult ==
    selectedResult # 0 =>
        \E i \in 1..Len(uploadedFiles) :
            /\ uploadedFiles[i].id = selectedFileId
            /\ uploadedFiles[i].analysisResults = selectedResult

\* C18: when the POST /api/upload of a file fails, 'Upload Failed' is toasted
\* once and nothing else is, no entry is added to uploadedFiles, no interval
\* and no 60 s timer is created, selectedResult and selectedFileId keep their
\* values and isUploading is false afterwards.
C18_UploadFailureHandled ==
    [][\A k \in FileIds :
        (stage[k] = "posting" /\ stage'[k] = "failed") =>
            /\ toasts' = [toasts EXCEPT !["Upload Failed"] = @ + 1]
            /\ analysisToasts' = analysisToasts
            /\ uploadedFiles' = uploadedFiles
            /\ intervalActive' = intervalActive
            /\ timeoutPending' = timeoutPending
            /\ pollDue' = pollDue
            /\ polls' = polls
            /\ selectedResult' = selectedResult
            /\ selectedFileId' = selectedFileId
            /\ ~isUploading']_vars

\* C18 witness: the second upload failed after the first one had succeeded;
\* only the first file is listed and has a poll loop.
C18_Witness ==
    /\ \E k \in FileIds : stage[k] = "failed"
    /\ \E k \in FileIds : stage[k] = "polling"
    /\ toasts["Upload Failed"] = 1
    /\ Len(uploadedFiles) = 1
    /\ Cardinality({k \in FileIds : intervalActive[k]}) = 1
    /\ ~isUploading

\* C20: isUploading is true whenever a POST /api/upload is in flight.
C20_UploadingWhilePostInFlight ==
    (\E k \in FileIds : stage[k] = "posting") => isUploading

\* C17: when the /api/status snapshot is applied, every one of devices.total,
\* devices.online, performance.accuracy, security.recentAnomalies and
\* security.privacyBudgetRemaining that is present in the response, the value
\* 0 included, is the value of the corresponding metrics field.
C17_PresentFieldsAreTaken ==
    [][(~initialMetrics.loaded /\ initialMetrics'.loaded) =>
        LET s == initialMetrics'
        IN  /\ s.total # Missing => metrics'.totalClients = s.total
            /\ s.online # Missing => metrics'.onlineClients = s.online
            /\ s.accuracy # Missing => metrics'.modelAccuracy = s.accuracy
            /\ s.recentAnomalies # Missing =>
                  metrics'.activeAnomalies = s.recentAnomalies
            /\ s.privacyBudgetRemaining # Missing =>
                  metrics'.privacyBudget = s.privacyBudgetRemaining]_vars

\* C11: AnomalyList leaves its retained list unchanged when it handles a
\* message that is not 'anomaly_detected' ('metrics_update' included), and
\* RealtimeMetrics leaves its metrics unchanged when it handles a message
\* that is not 'metrics_update' ('anomaly_detected' included).
C11_UnhandledTypesIgnored ==
    [][/\ (/\ initialAnomalies' = initialAnomalies
           /\ feedLastMessage'.type \in {"metrics_update", "device_status"})
          => anomalies' = anomalies
       /\ (/\ initialMetrics' = initialMetrics
           /\ metricsLastMessage'.type \in {"anomaly_detected", "device_status"})
          => metrics' = metrics]_vars

\* C11 witness: both components hold pushed state and the last message of
\* each is one it does not handle.
C11_Witness ==
    /\ Len(anomalies) = 3
    /\ anomalies[1] = 1
    /\ feedLastMessage.type = "metrics_update"
    /\ metrics.activeAnomalies = MaxField + 1
    /\ metrics.totalClients = Missing
    /\ metricsLastMessage.type = "anomaly_detected"

\* the six metrics fields as the snapshot alone determines them (accuracy in
\* thousandths, budget in tenths)
DerivedMetrics(s) ==
    [totalClients |-> IF s.total \in {Missing, 0} THEN 0 ELSE s.total,
     onlineClients |-> IF s.online \in {Missing, 0} THEN 0 ELSE s.online,
     modelAccuracy |-> IF s.accuracy \in {Missing, 0} THEN 947 ELSE s.accuracy,
     activeAnomalies |->
        IF s.recentAnomalies \in {Missing, 0} THEN 0 ELSE s.recentAnomalies,
     privacyBudget |->
        IF s.privacyBudgetRemaining \in {Missing, 0} THEN 60
        ELSE s.privacyBudgetRemaining,
     flProgress |-> IF s.currentRound \in {Missing, 0} THEN 0 ELSE 85]

\* C13: when the one-shot fetch resolves after push messages were applied,
\* the fetch result overwrites them: the anomaly list is the fetched history
\* and the six metrics fields are the values the snapshot determines.
C13_FetchOverwritesPush ==
    [][/\ (/\ ~initialAnomalies.loaded
           /\ initialAnomalies'.loaded
           /\ initialAnomalies'.isArray)
          => anomalies' = initialAnomalies'.items
       /\ (~initialMetrics.loaded /\ initialMetrics'.loaded)
          => metrics' = DerivedMetrics(initialMetrics')]_vars

\* C13 witness: both components had applied a pushed value, then both fetches
\* resolved and nothing pushed is left.
C13_Witness ==
    /\ feedLastMessage.type = "anomaly_detected"
    /\ initialAnomalies.loaded
    /\ anomalies = HistoryOf(2)
    /\ \A i \in 1..Len(anomalies) : anomalies[i] # feedLastMessage.data
    /\ metricsLastMessage.type = "metrics_update"
    /\ metricsLastMessage.data.flProgress = MaxField + 1
    /\ initialMetrics.loaded
    /\ metrics = DerivedMetrics(initialMetrics)
    /\ metrics.flProgress = 0

\* the step is an event of the poll loop of file a: one of its polls returns
\* or fails, or its 60 s timer fires
LoopEvent(a) ==
    \/ polls'[a] < polls[a]
    \/ timeoutPending[a] /\ ~timeoutPending'[a]

\* C16: a poll result, a poll failure or the timeout of the loop of file a
\* changes no entry of uploadedFiles other than a's and leaves the interval,
\* the timer, the age and the polls of every other file b as they were; the
\* polls of every loop keep their 2000 ms schedule.
C16_LoopsIndependent ==
    [][\A a \in FileIds :
        /\ LoopEvent(a) =>
              /\ Len(uploadedFiles') = Len(uploadedFiles)
              /\ \A i \in 1..Len(uploadedFiles) :
                    uploadedFiles[i].id # a => uploadedFiles'[i] = uploadedFiles[i]
              /\ \A b \in FileIds \ {a} :
                    /\ intervalActive'[b] = intervalActive[b]
                    /\ pollDue'[b] = pollDue[b]
                    /\ timeoutPending'[b] = timeoutPending[b]
                    /\ age'[b] = age[b]
                    /\ pollsStarted'[b] = pollsStarted[b]
                    /\ polls'[b] = polls[b]
        /\ pollsStarted'[a] # pollsStarted[a] =>
              age[a] = 2000 * pollsStarted'[a]]_vars

\* C16 witness: the loop of the first file completed and its timer has fired;
\* the second file is still listed as uploaded and its loop, untouched, has a
\* poll in flight.
C16_Witness ==
    /\ uploadedFiles[1] = FileRecord(FirstFile, "analyzed", FirstFile)
    /\ uploadedFiles[2] = FileRecord(SecondFile, "uploaded", 0)
    /\ ~timeoutPending[FirstFile]
    /\ intervalActive[SecondFile]
    /\ timeoutPending[SecondFile]
    /\ polls[SecondFile] > 0
    /\ pollsStarted[SecondFile] = 28

\* C21: for each uploaded file the 'Analysis Complete' notification is shown
\* at most once, also when several polls of the file are in flight at the
\* same time.
C21_AnalysisCompleteOnce ==
    \A k \in FileIds : analysisToasts[k] <= 1
====
